---- MODULE Spec2Model ----
(***************************************************************************)
(* Model of the bookmark store and the Netscape interchange layer of       *)
(* src/api/index.py.                                                       *)
(*                                                                         *)
(* Python str values are TLA+ strings, handled character by character      *)
(* with Len, SubSeq and \o.  A JSON object (a request body, a stored       *)
(* bookmark) is a function from its keys to its values.  The bookmarks     *)
(* file is the variable `file`; json.dump followed by json.load gives back *)
(* the same lists, dicts and strings, so the file holds the list itself.   *)
(***************************************************************************)
EXTENDS Integers, Sequences, FiniteSets, TLC

VARIABLES
    file,   \* BOOKMARKS_FILE: [kind: "absent" | "json" | "corrupt", data: list]
    now,    \* the wall clock, in ticks (TicksPerSecond ticks make a second)
    last,   \* the last request handled and the response it got
    pc,     \* concurrent requests: where each request stands
    req,    \* concurrent requests: the request each process handles
    local   \* concurrent requests: the list each request got from load_bookmarks

vars == <<file, now, last, pc, req, local>>

(***************************************************************************)
(* Bounds of the model.                                                    *)
(***************************************************************************)
\* the clock readings of a run are 1..MaxClock
MaxClock == 3
\* requests that would grow the collection beyond MaxBookmarks are left out
MaxBookmarks == 2
\* clock ticks per second: a reading is a multiple of 1/TicksPerSecond s
TicksPerSecond == 2

(***************************************************************************)
(* Python str methods.                                                     *)
(***************************************************************************)
\* s[i:i+1]: the character at position i, "" beyond the ends
Char(s, i) == IF 1 <= i /\ i <= Len(s) THEN SubSeq(s, i, i) ELSE ""

Whitespace == {" ", "\t", "\n", "\r", "\f"}

UpperLetters == "ABCDEFGHIJKLMNOPQRSTUVWXYZ"
LowerLetters == "abcdefghijklmnopqrstuvwxyz"

\* str.startswith(prefix)
startswith(s, prefix) ==
    /\ Len(s) >= Len(prefix)
    /\ SubSeq(s, 1, Len(prefix)) = prefix

\* "x in s" for a one-character x
Contains(s, c) == \E i \in 1..Len(s) : Char(s, i) = c

\* str.rstrip(chars): s up to its last character that is not in chars
rstrip(s, chars) ==
    LET n == CHOOSE k \in 0..Len(s) :
                 /\ k = 0 \/ Char(s, k) \notin chars
                 /\ \A j \in (k + 1)..Len(s) : Char(s, j) \in chars
    IN  SubSeq(s, 1, n)

\* str.lstrip(chars): s from its first character that is not in chars
lstrip(s, chars) ==
    LET n == CHOOSE k \in 1..(Len(s) + 1) :
                 /\ k = Len(s) + 1 \/ Char(s, k) \notin chars
                 /\ \A j \in 1..(k - 1) : Char(s, j) \in chars
    IN  SubSeq(s, n, Len(s))

\* str.strip()
strip(s) == lstrip(rstrip(s, Whitespace), Whitespace)

UpperSet == {Char(UpperLetters, i) : i \in 1..Len(UpperLetters)}

\* the lower-case letter of each upper-case letter
LowerOf ==
    [c \in UpperSet |->
        Char(LowerLetters, CHOOSE i \in 1..Len(UpperLetters) : Char(UpperLetters, i) = c)]

lower_char(c) == IF c \in UpperSet THEN LowerOf[c] ELSE c

RECURSIVE lower(_)
\* str.lower()
lower(s) ==
    IF s = "" THEN "" ELSE lower_char(Char(s, 1)) \o lower(SubSeq(s, 2, Len(s)))

\* dict.get(key, default)
Get(d, key, default) == IF key \in DOMAIN d THEN d[key] ELSE default

\* request.json is None: the body is no JSON object
None == [None |-> TRUE]
IsNone(data) == "None" \in DOMAIN data

(***************************************************************************)
(* URL handling shared by add_bookmark, update_bookmark and the importer.  *)
(***************************************************************************)
\* a NormalizeUrl that tests the scheme whatever its letter case
NormalizeUrl_IgnoresCase(url) ==
    IF startswith(lower(url), "http://") \/ startswith(lower(url), "https://")
    THEN url
    ELSE "https://" \o url

\* a NormalizeUrl that knows one scheme only: an "http://" url gets the prefix
NormalizeUrl_HttpsOnly(url) ==
    IF startswith(url, "https://") THEN url ELSE "https://" \o url

\* if not url.startswith(('http://', 'https://')): url = 'https://' + url
NormalizeUrl(url) ==
    IF startswith(url, "http://") \/ startswith(url, "https://")
    THEN url
    ELSE "https://" \o url

\* index of the first character of s, at or after position i, that is in chars;
\* Len(s) + 1 when there is none
FindFirst(s, i, chars) ==
    IF i > Len(s) THEN Len(s) + 1
    ELSE CHOOSE k \in i..(Len(s) + 1) :
             /\ k = Len(s) + 1 \/ Char(s, k) \in chars
             /\ \A j \in i..(k - 1) : Char(s, j) \notin chars

\* urllib.parse.urlparse, as far as the handlers use it: the scheme is what
\* precedes the first ':', the netloc what follows "//" up to the first of
\* '/', '?', '#'; a netloc with one of '[' and ']' but not the other raises
\* ValueError (raised |-> TRUE).
urlparse(url) ==
    LET colon  == FindFirst(url, 1, {":"})
        scheme == IF colon <= Len(url) THEN lower(SubSeq(url, 1, colon - 1)) ELSE ""
        rest   == IF colon <= Len(url) THEN SubSeq(url, colon + 1, Len(url)) ELSE url
        stop   == FindFirst(rest, 3, {"/", "?", "#"})
        netloc == IF startswith(rest, "//") THEN SubSeq(rest, 3, stop - 1) ELSE ""
    IN  [scheme |-> scheme,
         netloc |-> netloc,
         raised |-> Contains(netloc, "[") # Contains(netloc, "]")]

\* try: parsed = urlparse(url); if not parsed.scheme or not parsed.netloc: 400
\* except: 400
ValidUrlFormat(url) ==
    LET parsed == urlparse(url)
    IN  ~parsed.raised /\ parsed.scheme # "" /\ parsed.netloc # ""

\* url.lower().rstrip('/')
DedupKey(url) == rstrip(lower(url), {"/"})

(***************************************************************************)
(* Persistence.                                                            *)
(***************************************************************************)
\* BOOKMARKS_FILE does not exist
Absent == [kind |-> "absent", data |-> <<>>]

\* BOOKMARKS_FILE holds text that json.load rejects (or open fails): a write
\* cut short; data is the list the writer was saving
Corrupt ==
    [kind |-> "corrupt",
     data |-> <<[id |-> "0", title |-> "Lost", url |-> "https://lost.io",
                 description |-> "", tags |-> <<>>, category |-> "Uncategorized",
                 created |-> "0"]>>]

\* a load_bookmarks without the except clause's fallback: what could be read
\* of the file is returned
load_bookmarks_ReadsAnyway(f) == f.data

\* load_bookmarks: the list in the file, [] when the file is absent or unreadable
load_bookmarks(f) == IF f.kind = "json" THEN f.data ELSE <<>>

\* save_bookmarks: the file is overwritten with the whole list
save_bookmarks(bookmarks) == [kind |-> "json", data |-> bookmarks]

\* str(datetime.now().timestamp()) at clock reading t
IdOf(t) == ToString(t)

\* datetime.now().isoformat() at clock reading t
isoformat(t) == ToString(t)

(***************************************************************************)
(* Responses: status and body as returned, saved = save_bookmarks was      *)
(* called, bookmarks = the list handed to save_bookmarks.                  *)
(***************************************************************************)
Error(status, message, bookmarks) ==
    [status |-> status, body |-> [error |-> message],
     saved |-> FALSE, bookmarks |-> bookmarks]

Saved(status, body, bookmarks) ==
    [status |-> status, body |-> body, saved |-> TRUE, bookmarks |-> bookmarks]

(***************************************************************************)
(* POST /api/bookmarks                                                     *)
(***************************************************************************)
\* the checks of add_bookmark on the stripped url
AddUrlCheck(url) ==
    IF url = "" THEN "URL is required"
    ELSE IF ~ValidUrlFormat(NormalizeUrl(url)) THEN "Invalid URL format"
    ELSE ""

\* the part of add_bookmark before load_bookmarks: "" when the request passes,
\* the error message otherwise
add_precheck(data) ==
    IF IsNone(data) THEN "Invalid JSON or missing Content-Type: application/json"
    ELSE AddUrlCheck(strip(Get(data, "url", "")))

\* a CategoryOf without the default: data.get('category', '').strip()
CategoryOf_NoDefault(data) == strip(Get(data, "category", ""))

\* data.get('category', '').strip() or 'Uncategorized'
CategoryOf(data) ==
    IF strip(Get(data, "category", "")) # ""
    THEN strip(Get(data, "category", ""))
    ELSE "Uncategorized"

\* the dict new_bookmark of add_bookmark
NewBookmark(data, url, tId, tCreated) ==
    [id          |-> IdOf(tId),
     title       |-> strip(Get(data, "title", "")),
     url         |-> url,
     description |-> strip(Get(data, "description", "")),
     tags        |-> Get(data, "tags", <<>>),
     category    |-> CategoryOf(data),
     created     |-> isoformat(tCreated)]

\* an AddSaved that puts the new bookmark first: bookmarks.insert(0, new_bookmark)
AddSaved_Prepends(bookmarks, new_bookmark) ==
    Saved(201, new_bookmark, <<new_bookmark>> \o bookmarks)

\* bookmarks.append(new_bookmark); save_bookmarks(bookmarks); return 201
AddSaved(bookmarks, new_bookmark) ==
    Saved(201, new_bookmark, Append(bookmarks, new_bookmark))

\* an AddLoaded that appends and saves before it looks for a duplicate
AddLoaded_SavesFirst(data, bookmarks, url, tId, tCreated) ==
    IF \E i \in 1..Len(bookmarks) : DedupKey(Get(bookmarks[i], "url", "")) = DedupKey(url)
    THEN [Error(409, "A bookmark with this URL already exists",
                Append(bookmarks, NewBookmark(data, url, tId, tCreated)))
          EXCEPT !.saved = TRUE]
    ELSE AddSaved(bookmarks, NewBookmark(data, url, tId, tCreated))

\* add_bookmark from load_bookmarks on, url being the normalized url
AddLoaded(data, bookmarks, url, tId, tCreated) ==
    IF \E i \in 1..Len(bookmarks) : DedupKey(Get(bookmarks[i], "url", "")) = DedupKey(url)
    THEN Error(409, "A bookmark with this URL already exists", bookmarks)
    ELSE AddSaved(bookmarks, NewBookmark(data, url, tId, tCreated))

\* the response of add_bookmark when the request fails the checks made
\* before load_bookmarks, with message the error found
AddChecked(data, bookmarks, message, tId, tCreated) ==
    IF message # "" THEN Error(400, message, bookmarks)
    ELSE AddLoaded(data, bookmarks, NormalizeUrl(strip(Get(data, "url", ""))), tId, tCreated)

\* add_bookmark on the list `bookmarks` it loaded; tId and tCreated are the
\* readings of datetime.now() for the id and for created
add_bookmark(data, bookmarks, tId, tCreated) ==
    AddChecked(data, bookmarks, add_precheck(data), tId, tCreated)

(***************************************************************************)
(* GET /api/bookmarks                                                      *)
(***************************************************************************)
get_bookmarks(bookmarks) ==
    [status |-> 200, body |-> bookmarks, saved |-> FALSE, bookmarks |-> bookmarks]

(***************************************************************************)
(* PUT /api/bookmarks/<bookmark_id>                                        *)
(***************************************************************************)
\* for bookmark in bookmarks: if bookmark['id'] == bookmark_id: ... break
\* the index of the bookmark found, 0 when there is none
FindBookmark(bookmarks, bookmark_id) ==
    IF \E i \in 1..Len(bookmarks) : bookmarks[i].id = bookmark_id
    THEN CHOOSE i \in 1..Len(bookmarks) :
            /\ bookmarks[i].id = bookmark_id
            /\ \A j \in 1..(i - 1) : bookmarks[j].id # bookmark_id
    ELSE 0

\* the duplicate check of update_bookmark: the bookmarks whose id is
\* bookmark_id are passed over
UpdateDuplicate(bookmarks, bookmark_id, normalized_url) ==
    \E i \in 1..Len(bookmarks) :
        /\ bookmarks[i].id # bookmark_id
        /\ DedupKey(Get(bookmarks[i], "url", "")) = normalized_url

\* if key in data: bookmark_to_update[key] = value
SetIfPresent(bookmark, data, key, value) ==
    IF key \in DOMAIN data THEN [bookmark EXCEPT ![key] = value] ELSE bookmark

\* an UpdateFields that assigns category as add_bookmark does, present or not
UpdateFields_ResetsCategory(bookmark, data) ==
    [SetIfPresent(
        SetIfPresent(
            SetIfPresent(
                SetIfPresent(bookmark, data, "url",
                             NormalizeUrl(strip(Get(data, "url", "")))),
                data, "title", strip(Get(data, "title", ""))),
            data, "description", strip(Get(data, "description", ""))),
        data, "tags", Get(data, "tags", <<>>))
     EXCEPT !.category = CategoryOf(data)]

\* the assignments of update_bookmark to bookmark_to_update, url included
UpdateFields(bookmark, data) ==
    SetIfPresent(
        SetIfPresent(
            SetIfPresent(
                SetIfPresent(
                    SetIfPresent(bookmark, data, "url",
                                 NormalizeUrl(strip(Get(data, "url", "")))),
                    data, "title", strip(Get(data, "title", ""))),
                data, "description", strip(Get(data, "description", ""))),
            data, "tags", Get(data, "tags", <<>>)),
        data, "category", CategoryOf(data))

\* save_bookmarks(bookmarks); return jsonify(bookmark_to_update)
UpdateSaved(bookmarks, found, updated) ==
    Saved(200, updated, [bookmarks EXCEPT ![found] = updated])

\* update_bookmark once bookmark_to_update is found at index `found`
UpdateFound(bookmark_id, data, bookmarks, found, url) ==
    IF found = 0
    THEN Error(404, "Bookmark not found", bookmarks)
    ELSE IF "url" \in DOMAIN data /\ strip(data.url) = ""
    THEN Error(400, "URL cannot be empty", bookmarks)
    ELSE IF "url" \in DOMAIN data /\ ~ValidUrlFormat(url)
    THEN Error(400, "Invalid URL format", bookmarks)
    ELSE IF "url" \in DOMAIN data /\ UpdateDuplicate(bookmarks, bookmark_id, DedupKey(url))
    THEN Error(409, "A bookmark with this URL already exists", bookmarks)
    ELSE UpdateSaved(bookmarks, found, UpdateFields(bookmarks[found], data))

update_bookmark(bookmark_id, data, bookmarks) ==
    IF IsNone(data)
    THEN Error(400, "Invalid JSON or missing Content-Type: application/json", bookmarks)
    ELSE UpdateFound(bookmark_id, data, bookmarks, FindBookmark(bookmarks, bookmark_id),
                     NormalizeUrl(strip(Get(data, "url", ""))))

(***************************************************************************)
(* DELETE /api/bookmarks/<bookmark_id>                                     *)
(***************************************************************************)
\* a DeleteFilter that removes the first bookmark with the id only
DeleteFilter_FirstOnly(bookmarks, bookmark_id) ==
    LET found == FindBookmark(bookmarks, bookmark_id)
    IN  IF found = 0 THEN bookmarks
        ELSE SubSeq(bookmarks, 1, found - 1) \o SubSeq(bookmarks, found + 1, Len(bookmarks))

\* [b for b in bookmarks if b['id'] != bookmark_id]
DeleteFilter(bookmarks, bookmark_id) ==
    LET Keep(b) == b.id # bookmark_id IN SelectSeq(bookmarks, Keep)

delete_bookmark(bookmark_id, bookmarks) ==
    Saved(200, [success |-> TRUE], DeleteFilter(bookmarks, bookmark_id))

(***************************************************************************)
(* DELETE /api/bookmarks/bulk.  The JSON value of "ids" is [list |-> <<..>>]*)
(* when it is an array and [str |-> ".."] when it is a string.             *)
(***************************************************************************)
\* a BulkFilter with the test inverted: [b for b in bookmarks if b['id'] in bookmark_ids]
BulkFilter_KeepsListed(bookmarks, bookmark_ids) ==
    LET Keep(b) == \E k \in 1..Len(bookmark_ids) : bookmark_ids[k] = b.id
    IN  SelectSeq(bookmarks, Keep)

\* [b for b in bookmarks if b['id'] not in bookmark_ids]
BulkFilter(bookmarks, bookmark_ids) ==
    LET Keep(b) == \A k \in 1..Len(bookmark_ids) : bookmark_ids[k] # b.id
    IN  SelectSeq(bookmarks, Keep)

bulk_delete_bookmarks(data, bookmarks) ==
    IF IsNone(data) \/ "ids" \notin DOMAIN data
    THEN Error(400, "Invalid JSON or missing ids array", bookmarks)
    ELSE IF "list" \notin DOMAIN data.ids
    THEN Error(400, "ids must be an array", bookmarks)
    ELSE Saved(200,
               [success |-> TRUE,
                deleted |-> Len(bookmarks) - Len(BulkFilter(bookmarks, data.ids.list))],
               BulkFilter(bookmarks, data.ids.list))

(***************************************************************************)
(* GET /api/categories.  sorted() orders str values by code point.         *)
(***************************************************************************)
\* the characters of the categories, in code point order: ' ' < digits <
\* upper-case letters < lower-case letters
Ascii ==
    " 0123456789ABCDEFGHIJKLMNOPQRSTUVWXYZabcdefghijklmnopqrstuvwxyz"

\* the place of c in the code point order
ord(c) == CHOOSE i \in 1..Len(Ascii) : Char(Ascii, i) = c

\* a < b as Python compares str values
StrLess(a, b) ==
    \E k \in 1..(Len(b)) :
        /\ \A j \in 1..(k - 1) : j <= Len(a) /\ Char(a, j) = Char(b, j)
        /\ \/ k = Len(a) + 1
           \/ k <= Len(a) /\ ord(Char(a, k)) < ord(Char(b, k))

RECURSIVE sorted(_)
\* sorted(list(categories)) for a set of str
sorted(categories) ==
    IF categories = {} THEN <<>>
    ELSE LET least == CHOOSE c \in categories :
                          \A d \in categories \ {c} : StrLess(c, d)
         IN  <<least>> \o sorted(categories \ {least})

\* the set built by the loop of get_categories: a falsy category is left out
Categories(bookmarks) ==
    {Get(bookmarks[i], "category", "Uncategorized") : i \in 1..Len(bookmarks)} \ {""}

get_categories(bookmarks) ==
    [status |-> 200, body |-> sorted(Categories(bookmarks)),
     saved |-> FALSE, bookmarks |-> bookmarks]

(***************************************************************************)
(* parse_netscape_bookmarks.  The regular expression                       *)
(*   <A\s+HREF="([^"]+)"[^>]*ADD_DATE="?(\d+)"?[^>]*>([^<]+)</A>           *)
(* (re.IGNORECASE) is matched character by character.  ends are exclusive: *)
(* `stop` is the position after the match.                                 *)
(***************************************************************************)
Digits == {"0", "1", "2", "3", "4", "5", "6", "7", "8", "9"}

DigitValue ==
    [c \in Digits |-> CHOOSE n \in 0..9 : ToString(n) = c]

RECURSIVE int(_)
\* int(s) for a string of decimal digits
int(s) ==
    IF s = "" THEN 0
    ELSE 10 * int(SubSeq(s, 1, Len(s) - 1)) + DigitValue[Char(s, Len(s))]

\* index of the first character of s, at or after position i, that is not
\* in chars; Len(s) + 1 when there is none
FindFirstNot(s, i, chars) ==
    IF i > Len(s) THEN Len(s) + 1
    ELSE CHOOSE k \in i..(Len(s) + 1) :
             /\ k = Len(s) + 1 \/ Char(s, k) \notin chars
             /\ \A j \in i..(k - 1) : Char(s, j) \in chars

\* s[i:] starts with literal, letter case ignored
LiteralAt(s, i, literal) ==
    /\ i + Len(literal) - 1 <= Len(s)
    /\ lower(SubSeq(s, i, i + Len(literal) - 1)) = lower(literal)

\* ADD_DATE="?(\d+) matches at position a
AddDateAt(s, a) ==
    /\ LiteralAt(s, a, "ADD_DATE=")
    /\ LET d == IF Char(s, a + 9) = "\"" THEN a + 10 ELSE a + 9
       IN  d <= Len(s) /\ Char(s, d) \in Digits

\* the match of the pattern that starts at position i, if there is one
MatchAt(s, i) ==
    LET href  == FindFirstNot(s, i + 2, Whitespace)       \* after <A\s+
        u1    == href + 6                                 \* after HREF="
        u2    == FindFirst(s, u1, {"\""})                 \* the closing quote
        gt    == FindFirst(s, u2 + 1, {">"})              \* the end of the tag
        dates == {a \in (u2 + 1)..(gt - 1) : AddDateAt(s, a)}
        \* [^>]* is greedy: the last ADD_DATE of the tag is the one matched
        a     == CHOOSE x \in dates : \A y \in dates : y <= x
        d1    == IF Char(s, a + 9) = "\"" THEN a + 10 ELSE a + 9
        d2    == FindFirstNot(s, d1, Digits)
        lt    == FindFirst(s, gt + 1, {"<"})              \* the end of the title
    IN  IF /\ LiteralAt(s, i, "<A")
           /\ href > i + 2
           /\ LiteralAt(s, href, "HREF=\"")
           /\ u2 > u1 /\ u2 <= Len(s)
           /\ gt <= Len(s)
           /\ dates # {}
           /\ lt > gt + 1
           /\ LiteralAt(s, lt, "</A>")
        THEN [matched |-> TRUE,
              url |-> SubSeq(s, u1, u2 - 1),
              add_date |-> SubSeq(s, d1, d2 - 1),
              title |-> SubSeq(s, gt + 1, lt - 1),
              stop |-> lt + 4]
        ELSE [matched |-> FALSE]

\* re.search(r'<DD>([^<]+)', window): group 1 of the first match, stripped;
\* '' when there is no match
FindDescription(window) ==
    LET DescAt(p) == SubSeq(window, p, p + 3) = "<DD>" /\ Char(window, p + 4) # "<"
        starts == {p \in 1..(Len(window) - 4) : DescAt(p)}
        first == CHOOSE p \in starts : \A q \in starts : p <= q
    IN  IF starts = {} THEN ""
        ELSE strip(SubSeq(window, first + 4, FindFirst(window, first + 4, {"<"}) - 1))

\* the lookahead window of the description: content[match.end():match.end()+200]
DescriptionWindow == 200

\* datetime.fromtimestamp(int(add_date)) raises (OverflowError, ValueError)
\* for readings beyond the year 9999: these have more than 12 digits; the
\* inputs of the model hold no 12-digit reading
fromtimestamp_raises(add_date) == Len(lstrip(add_date, {"0"})) > 12

\* one parsed bookmark, from the match m of the pattern in content
ParsedBookmark(content, m, t) ==
    LET title == strip(m.title)
    IN  [title       |-> IF title # "" THEN title ELSE "Untitled",
         url         |-> NormalizeUrl(m.url),
         description |-> FindDescription(
                            SubSeq(content, m.stop,
                                   IF m.stop + DescriptionWindow - 1 <= Len(content)
                                   THEN m.stop + DescriptionWindow - 1
                                   ELSE Len(content))),
         created     |-> IF fromtimestamp_raises(m.add_date)
                         THEN isoformat(t)
                         ELSE isoformat(int(m.add_date) * TicksPerSecond)]

\* the pattern matches at position i
MatchesAt(s, i) == Char(s, i) = "<" /\ MatchAt(s, i).matched

\* re.finditer: the matches from position i on, leftmost first, not overlapping
RECURSIVE ParseFrom(_, _, _)
RECURSIVE ParseMatch(_, _, _)
ParseMatch(content, m, t) ==
    <<ParsedBookmark(content, m, t)>> \o ParseFrom(content, m.stop, t)

\* the first position of `starts`, the positions where the pattern matches
FirstOf(starts) == CHOOSE k \in starts : \A j \in starts : k <= j

ParseNext(content, starts, t) ==
    IF starts = {} THEN <<>> ELSE ParseMatch(content, MatchAt(content, FirstOf(starts)), t)

ParseFrom(content, i, t) ==
    ParseNext(content, {k \in i..Len(content) : MatchesAt(content, k)}, t)

\* parse_netscape_bookmarks(content), datetime.now() reading t
parse_netscape_bookmarks(content, t) == ParseFrom(content, 1, t)

(***************************************************************************)
(* POST /api/import.  The upload is [filename |-> .., content |-> ..];     *)
(* NoFile is a request without the 'file' part.                            *)
(***************************************************************************)
NoFile == [nofile |-> TRUE]

\* uploads of POST /api/import
ImportInputs ==
    {[filename |-> "one.html",
      content  |-> "<DT><A HREF=\"https://example.com\" ADD_DATE=\"1\">One</A>\n"
                   \o "<DT><A HREF=\"Example.com/\" ADD_DATE=\"2\">Two</A>\n"],
     [filename |-> "two.html",
      content  |-> "<DT><A HREF=\"c.io\" ADD_DATE=\"1\">C</A>\n<DD>about c\n"
                   \o "<DT><a href=\"http://example.com\" add_date=99999999999999>  </a>\n"],
     [filename |-> "none.html", content |-> "<html><A HREF=\"c.io\">C</A></html>"],
     [filename |-> "", content |-> ""],
     NoFile}

\* parse_netscape_bookmarks(content) for every content uploaded and every
\* reading of datetime.now(), computed once
ParsedUploads ==
    {[content |-> u.content, t |-> t,
      bookmarks |-> parse_netscape_bookmarks(u.content, t)] :
        u \in {v \in ImportInputs : "content" \in DOMAIN v}, t \in 0..MaxClock}

\* the call of parse_netscape_bookmarks by import_bookmarks
ParseUpload(content, t) ==
    IF \E e \in ParsedUploads : e.content = content /\ e.t = t
    THEN (CHOOSE e \in ParsedUploads : e.content = content /\ e.t = t).bookmarks
    ELSE parse_netscape_bookmarks(content, t)

\* an existing_urls without lower(): {b.get('url', '').rstrip('/') ...}
ExistingUrls_CaseSensitive(bookmarks) ==
    {rstrip(Get(bookmarks[i], "url", ""), {"/"}) : i \in 1..Len(bookmarks)}

\* {b.get('url', '').lower().rstrip('/') for b in bookmarks}
ExistingUrls(bookmarks) ==
    {DedupKey(Get(bookmarks[i], "url", "")) : i \in 1..Len(bookmarks)}

\* the loop of import_bookmarks from the i-th parsed bookmark on; st holds
\* bookmarks, existing_urls, new_count and skipped_count
RECURSIVE ImportLoop(_, _, _, _)
ImportLoop(imported_bookmarks, i, st, t) ==
    IF i > Len(imported_bookmarks) THEN st
    ELSE
    LET imported == imported_bookmarks[i]
        normalized_url == DedupKey(imported.url)
        stored ==
            [id          |-> IdOf(t + st.new_count * TicksPerSecond),
             title       |-> imported.title,
             url         |-> imported.url,
             description |-> imported.description,
             tags        |-> Get(imported, "tags", <<>>),
             category    |-> Get(imported, "category", "Imported"),
             created     |-> Get(imported, "created", isoformat(t))]
    IN  IF normalized_url \notin st.existing_urls
        THEN ImportLoop(imported_bookmarks, i + 1,
                 [bookmarks     |-> Append(st.bookmarks, stored),
                  existing_urls |-> st.existing_urls \cup {normalized_url},
                  new_count     |-> st.new_count + 1,
                  skipped_count |-> st.skipped_count], t)
        ELSE ImportLoop(imported_bookmarks, i + 1,
                 [st EXCEPT !.skipped_count = st.skipped_count + 1], t)

\* save_bookmarks(bookmarks) and the counts returned, done being the state
\* the loop ended in
ImportSaved(imported_bookmarks, done) ==
    Saved(200,
          [success  |-> TRUE,
           imported |-> done.new_count,
           skipped  |-> done.skipped_count,
           total    |-> Len(imported_bookmarks)],
          done.bookmarks)

\* import_bookmarks from the result of parse_netscape_bookmarks on
ImportParsed(upload, imported_bookmarks, bookmarks, t) ==
    IF "nofile" \in DOMAIN upload THEN Error(400, "No file provided", bookmarks)
    ELSE IF upload.filename = "" THEN Error(400, "No file selected", bookmarks)
    ELSE IF imported_bookmarks = <<>>
    THEN Error(400, "No bookmarks found in file", bookmarks)
    ELSE ImportSaved(imported_bookmarks,
             ImportLoop(imported_bookmarks, 1,
                 [bookmarks     |-> bookmarks,
                  existing_urls |-> ExistingUrls(bookmarks),
                  new_count     |-> 0,
                  skipped_count |-> 0], t))

import_bookmarks(upload, bookmarks, t) ==
    ImportParsed(upload, ParseUpload(Get(upload, "content", ""), t),
                 bookmarks, t)

(***************************************************************************)
(* The exports.  A page is built as the list of its parts, in order: the   *)
(* literal text of the template ("literal"), an interpolated user field    *)
(* ("field") or an interpolated date ("date"); the response body is their  *)
(* concatenation.                                                          *)
(***************************************************************************)
RECURSIVE replace(_, _, _)
\* str.replace(old, new) for a one-character old
replace(s, old, new) ==
    IF s = "" THEN ""
    ELSE (IF Char(s, 1) = old THEN new ELSE Char(s, 1))
         \o replace(SubSeq(s, 2, Len(s)), old, new)

\* an escape_html that replaces '&' last, escaping the entities it has made
escape_html_AmpersandLast(text) ==
    replace(replace(replace(replace(replace(text,
        "<", "&lt;"), ">", "&gt;"), "\"", "&quot;"), "'", "&#x27;"), "&", "&amp;")

\* escape_html of export_bookmarks and of export_bookmarks_netscape (the two
\* definitions are the same)
escape_html(text) ==
    replace(replace(replace(replace(replace(text,
        "&", "&amp;"), "<", "&lt;"), ">", "&gt;"), "\"", "&quot;"), "'", "&#x27;")

Lit(text) == [kind |-> "literal", text |-> text]
Field(text) == [kind |-> "field", text |-> text]
Date(text) == [kind |-> "date", text |-> text]

RECURSIVE Join(_)
\* the text of a page: its parts, concatenated
Join(parts) == IF parts = <<>> THEN "" ELSE Head(parts).text \o Join(Tail(parts))

\* datetime.fromisoformat(created): the clock reading whose isoformat is created
fromisoformat(created) == int(created)

NetscapeHeader ==
    "<!DOCTYPE NETSCAPE-Bookmark-file-1>\n"
    \o "<!-- This is an automatically generated file.\n"
    \o "     It will be read and overwritten.\n"
    \o "     DO NOT EDIT! -->\n"
    \o "<META HTTP-EQUIV=\"Content-Type\" CONTENT=\"text/html; charset=UTF-8\">\n"
    \o "<TITLE>Bookmarks</TITLE>\n"
    \o "<H1>Bookmarks</H1>\n"
    \o "<DL><p>\n"

\* the lines export_bookmarks_netscape writes for one bookmark
NetscapeEntry(bookmark, t) ==
    LET title       == Get(bookmark, "title", "Untitled")
        url         == Get(bookmark, "url", "#")
        description == Get(bookmark, "description", "")
        add_date    == fromisoformat(Get(bookmark, "created", isoformat(t))) \div TicksPerSecond
    IN  <<Lit("    <DT><A HREF=\""), Field(escape_html(url)),
          Lit("\" ADD_DATE=\""), Date(ToString(add_date)), Lit("\">"),
          Field(escape_html(title)), Lit("</A>\n")>>
        \o (IF description # ""
            THEN <<Lit("    <DD>"), Field(escape_html(description)), Lit("\n")>>
            ELSE <<>>)

RECURSIVE NetscapeEntries(_, _)
NetscapeEntries(bookmarks, t) ==
    IF bookmarks = <<>> THEN <<>>
    ELSE NetscapeEntry(Head(bookmarks), t) \o NetscapeEntries(Tail(bookmarks), t)

\* export_bookmarks_netscape: the parts of the page
NetscapeParts(bookmarks, t) ==
    <<Lit(NetscapeHeader)>> \o NetscapeEntries(bookmarks, t) \o <<Lit("</DL><p>")>>

export_bookmarks_netscape(bookmarks, t) ==
    [status |-> 200, body |-> Join(NetscapeParts(bookmarks, t)),
     saved |-> FALSE, bookmarks |-> bookmarks]

\* the template of export_bookmarks up to the grid; the style sheet (lines
\* 286-444) holds no interpolation and is left out
PageHead ==
    "<!DOCTYPE html>\n<html lang=\"en\">\n<head>\n"
    \o "    <title>My Bookmarks</title>\n</head>\n<body>\n"
    \o "    <div class=\"container\">\n        <div class=\"header\">\n"
    \o "            <h1>My Bookmarks</h1>\n            <p>Exported on "

PageGrid == "</p>\n        </div>\n        <div class=\"bookmarks-grid\">\n"

EmptyState ==
    "\n            <div class=\"empty-state\">\n"
    \o "                <h2>No bookmarks</h2>\n"
    \o "                <p>No bookmarks to display</p>\n"
    \o "            </div>\n"

PageFoot == "        </div>\n    </div>\n</body>\n</html>"

RECURSIVE TagParts(_)
\* for tag in tags: <span class="tag">{escape_html(tag)}</span>
TagParts(tags) ==
    IF tags = <<>> THEN <<>>
    ELSE <<Lit("                    <span class=\"tag\">"),
           Field(escape_html(Head(tags))), Lit("</span>\n")>>
         \o TagParts(Tail(tags))

\* the card export_bookmarks writes for one bookmark
Card(bookmark) ==
    LET title       == Get(bookmark, "title", "Untitled")
        url         == Get(bookmark, "url", "#")
        description == Get(bookmark, "description", "")
        tags        == Get(bookmark, "tags", <<>>)
    IN  <<Lit("\n            <div class=\"bookmark-card\">\n"
              \o "                <div class=\"bookmark-title\">\n"
              \o "                    <a href=\""),
          Field(escape_html(url)),
          Lit("\" target=\"_blank\" rel=\"noopener noreferrer\">\n"
              \o "                        "),
          Field(escape_html(title)),
          Lit("\n                    </a>\n                </div>\n"
              \o "                <div class=\"bookmark-url\">"),
          Field(escape_html(url)),
          Lit("</div>\n")>>
        \o (IF description # ""
            THEN <<Lit("                <div class=\"bookmark-description\">"),
                   Field(escape_html(description)), Lit("</div>\n")>>
            ELSE <<>>)
        \o (IF tags # <<>>
            THEN <<Lit("                <div class=\"bookmark-tags\">\n")>>
                 \o TagParts(tags)
                 \o <<Lit("                </div>\n")>>
            ELSE <<>>)
        \o <<Lit("            </div>\n")>>

RECURSIVE Cards(_)
Cards(bookmarks) ==
    IF bookmarks = <<>> THEN <<>> ELSE Card(Head(bookmarks)) \o Cards(Tail(bookmarks))

\* export_bookmarks: the parts of the page; the export date is
\* datetime.now().strftime(...) at clock reading t
ExportParts(bookmarks, t) ==
    <<Lit(PageHead), Date(isoformat(t)), Lit(PageGrid)>>
    \o (IF bookmarks = <<>> THEN <<Lit(EmptyState)>> ELSE Cards(bookmarks))
    \o <<Lit(PageFoot)>>

export_bookmarks(bookmarks, t) ==
    [status |-> 200, body |-> Join(ExportParts(bookmarks, t)),
     saved |-> FALSE, bookmarks |-> bookmarks]

(***************************************************************************)
(* Inputs.                                                                 *)
(***************************************************************************)
\* request bodies of POST /api/bookmarks
AddInputs ==
    {[url |-> "example.com", title |-> "Example"],
     [url |-> "https://Example.com/"],
     [url |-> "http://example.com", category |-> "  "],
     [url |-> "HTTP://example.com"],
     [url |-> " b.io ", title |-> " a&b ", description |-> " d ",
      tags |-> <<"t">>, category |-> " Work "],
     [url |-> "  ", title |-> "blank"],
     [url |-> "https://"],
     [title |-> "no url"],
     None}

\* request bodies of PUT /api/bookmarks/<bookmark_id>; <<>> is the empty object
UpdateInputs ==
    {<<>>,
     [url |-> "Example.com/", title |-> " New "],
     [description |-> " d2 ", tags |-> <<"t", "u">>, category |-> "  "],
     [url |-> " ", title |-> "kept"],
     [url |-> "https://", category |-> "kept"],
     None}

\* an id no bookmark has: ids are readings of a clock that starts after 0
UnknownId == IdOf(0)

\* the ids a request can name: those of the stored bookmarks and an unknown one
IdInputs == {load_bookmarks(file)[i].id : i \in 1..Len(load_bookmarks(file))} \cup {UnknownId}

\* request bodies of DELETE /api/bookmarks/bulk
BulkInputs ==
    {None, [other |-> <<>>], [ids |-> [str |-> UnknownId]], [ids |-> [list |-> <<>>]]}
    \cup {[ids |-> [list |-> <<a>>]] : a \in IdInputs}
    \cup {[ids |-> [list |-> <<a, UnknownId, a>>]] : a \in IdInputs}

(***************************************************************************)
(* Requests handled one at a time.                                         *)
(***************************************************************************)
Init ==
    /\ file \in {Absent, Corrupt}
    /\ now = 0
    /\ last = [op |-> "none"]
    /\ pc = <<>>
    /\ req = <<>>
    /\ local = <<>>

\* the readings of datetime.now() in a request that follows one made at `now`:
\* later, by a second at most
Later == {t \in (now + 1)..MaxClock : t <= now + TicksPerSecond}

\* a request arrives when the one before it has been answered; the handler
\* runs to its return and the file is written when it called save_bookmarks
Respond(op, request, r, t) ==
    /\ last.op = "none"
    /\ Len(r.bookmarks) <= MaxBookmarks
    /\ file' = IF r.saved THEN save_bookmarks(r.bookmarks) ELSE file
    /\ now' = t
    /\ last' = [op |-> op, request |-> request, status |-> r.status, body |-> r.body,
                saved |-> r.saved, pre |-> load_bookmarks(file), at |-> t,
                blob |-> file.kind]
    /\ UNCHANGED <<pc, req, local>>

List ==
    \E t \in {now} :
        Respond("list", <<>>, get_bookmarks(load_bookmarks(file)), t)

ListCategories ==
    \E t \in {now} :
        Respond("listCategories", <<>>, get_categories(load_bookmarks(file)), t)

Add ==
    \E data \in AddInputs, t \in Later :
        Respond("add", data, add_bookmark(data, load_bookmarks(file), t, t), t)

Update ==
    \E bookmark_id \in IdInputs, data \in UpdateInputs :
        Respond("update", [id |-> bookmark_id, data |-> data],
                update_bookmark(bookmark_id, data, load_bookmarks(file)), now)

Delete ==
    \E bookmark_id \in IdInputs :
        Respond("delete", [id |-> bookmark_id],
                delete_bookmark(bookmark_id, load_bookmarks(file)), now)

BulkDelete ==
    \E data \in BulkInputs :
        Respond("bulkDelete", data, bulk_delete_bookmarks(data, load_bookmarks(file)), now)

Import ==
    \E upload \in ImportInputs, t \in Later :
        Respond("import", upload, import_bookmarks(upload, load_bookmarks(file), t), t)

\* the client takes the response: the next request can be made
Reply ==
    /\ last.op # "none"
    /\ last' = [op |-> "none"]
    /\ UNCHANGED <<file, now, pc, req, local>>

Next == List \/ ListCategories \/ Add \/ Update \/ Delete \/ BulkDelete \/ Import \/ Reply

Spec == Init /\ [][Next]_vars

(***************************************************************************)
(* The codec on its own: the collection is any one that a few adds leave,  *)
(* and the exports and the parser are applied to it.                       *)
(***************************************************************************)
\* the most bookmarks of an exported collection
MaxExported == 2

\* request bodies of the adds that build the exported collections
CodecInputs ==
    {[url |-> "a.io/?q=\"x\"&y=<z>", title |-> "Tom & Jerry's <b>",
      description |-> "x<y", tags |-> <<"a&b", "<script>">>],
     [url |-> "b.io"],
     [url |-> "c.io", title |-> "Plain", description |-> "about c"],
     [url |-> "d.io", title |-> "&amp;", tags |-> <<"'">>]}

\* the collections that up to MaxExported successful adds leave, each add
\* later than the one before by a second at most
RECURSIVE CodecCollections(_)
CodecCollections(n) ==
    IF n = 0 THEN {[bookmarks |-> <<>>, at |-> 0]}
    ELSE CodecCollections(n - 1)
         \cup {[bookmarks |-> add_bookmark(data, c.bookmarks, t, t).bookmarks, at |-> t] :
                  <<c, data, t>> \in
                      {x \in CodecCollections(n - 1) \X CodecInputs \X (1..(n * TicksPerSecond)) :
                          /\ Len(x[1].bookmarks) = n - 1
                          /\ x[3] > x[1].at
                          /\ x[3] <= x[1].at + TicksPerSecond
                          /\ add_bookmark(x[2], x[1].bookmarks, x[3], x[3]).status = 201}}

InitCodec ==
    /\ \E c \in CodecCollections(MaxExported) :
          /\ file = save_bookmarks(c.bookmarks)
          /\ now = c.at
    /\ last = [op |-> "none"]
    /\ pc = <<>>
    /\ req = <<>>
    /\ local = <<>>

\* GET /api/export
ExportStyled ==
    /\ last.op = "none"
    /\ last' = [op |-> "export",
                status |-> export_bookmarks(load_bookmarks(file), now).status,
                body |-> export_bookmarks(load_bookmarks(file), now).body,
                parts |-> ExportParts(load_bookmarks(file), now)]
    /\ UNCHANGED <<file, now, pc, req, local>>

\* GET /api/export/netscape
ExportNetscape ==
    /\ last.op = "none"
    /\ last' = [op |-> "export_netscape",
                status |-> export_bookmarks_netscape(load_bookmarks(file), now).status,
                body |-> export_bookmarks_netscape(load_bookmarks(file), now).body,
                parts |-> NetscapeParts(load_bookmarks(file), now)]
    /\ UNCHANGED <<file, now, pc, req, local>>

\* the exported file is handed to parse_netscape_bookmarks
ParseExported ==
    /\ last.op = "export_netscape"
    /\ last' = [op |-> "parse",
                content |-> last.body,
                parsed |-> parse_netscape_bookmarks(last.body, now)]
    /\ UNCHANGED <<file, now, pc, req, local>>

NextCodec == ExportStyled \/ ExportNetscape \/ ParseExported \/ Reply

SpecCodec == InitCodec /\ [][NextCodec]_vars

(***************************************************************************)
(* The category listing on its own: the file holds any list of bookmarks,  *)
(* also one written by other means, whose category can be absent or blank. *)
(***************************************************************************)
\* the category of a bookmark of the file; None stands for no 'category' key
CategoryValues == {"None", "", "  ", "Uncategorized", "Work", "art", "Work 2"}

\* the i-th bookmark of the file, with category c
CategoryBookmark(i, c) ==
    LET b == [id |-> IdOf(i), title |-> "T", url |-> "https://" \o IdOf(i) \o ".io",
              description |-> "", tags |-> <<>>, created |-> isoformat(i)]
    IN  IF c = "None" THEN b ELSE b @@ [category |-> c]

RECURSIVE CategoryCollections(_)
\* the lists of up to n bookmarks
CategoryCollections(n) ==
    IF n = 0 THEN {<<>>}
    ELSE CategoryCollections(n - 1)
         \cup {Append(c, CategoryBookmark(n, v)) :
                  c \in {x \in CategoryCollections(n - 1) : Len(x) = n - 1},
                  v \in CategoryValues}

InitCategories ==
    /\ file \in {save_bookmarks(c) : c \in CategoryCollections(MaxExported)}
    /\ now = MaxExported
    /\ last = [op |-> "none"]
    /\ pc = <<>>
    /\ req = <<>>
    /\ local = <<>>

NextCategories == List \/ ListCategories \/ Reply

SpecCategories == InitCategories /\ [][NextCategories]_vars

(***************************************************************************)
(* Requests handled concurrently.  No lock is held between load_bookmarks  *)
(* and save_bookmarks: a request is a Load step (the handler up to and     *)
(* including load_bookmarks) and later a Save step (the rest of the        *)
(* handler, save_bookmarks and the return).                                *)
(***************************************************************************)
\* the number of requests that run concurrently
NumRequests == 2
\* the number of requests of a run of the store (SpecStore)
NumStoreRequests == 3
\* requests that would grow the collection beyond MaxConcBookmarks are left out
MaxConcBookmarks == 3

\* the requests of the run
Procs == DOMAIN pc

ConcAddInputs ==
    {[url |-> "example.com", title |-> "Example"],
     [url |-> " b.io ", title |-> " a&b "],
     [title |-> "no url"]}

ConcUpdateInputs ==
    {[url |-> "Example.com/", title |-> " New "],
     None}

\* the files uploaded
ConcUploads ==
    {u \in ImportInputs : "filename" \in DOMAIN u => u.filename = "two.html"}

\* the requests a client can make of the store as it is
ConcRequests ==
    {[op |-> "add", data |-> data] : data \in ConcAddInputs}
    \cup {[op |-> "update", id |-> id, data |-> data] :
             id \in IdInputs, data \in ConcUpdateInputs}
    \cup {[op |-> "delete", id |-> id] : id \in IdInputs}
    \cup {[op |-> "bulkDelete", data |-> data] :
             data \in {[ids |-> [list |-> <<id>>]] : id \in IdInputs}
                      \cup {[ids |-> [str |-> UnknownId]]}}
    \cup {[op |-> "import", upload |-> upload] : upload \in ConcUploads}

\* the uploads import_bookmarks answers with 400, which it does before it
\* calls load_bookmarks
RejectedUploads ==
    {u \in ConcUploads : import_bookmarks(u, <<>>, 0).status = 400}

\* the handler returns before it calls load_bookmarks
ReturnsBeforeLoad(r) ==
    CASE r.op = "add"        -> add_precheck(r.data) # ""
      [] r.op = "update"     -> IsNone(r.data)
      [] r.op = "delete"     -> FALSE
      [] r.op = "bulkDelete" -> bulk_delete_bookmarks(r.data, <<>>).status = 400
      [] r.op = "import"     -> r.upload \in RejectedUploads

\* the handler of request r on the list it loaded, datetime.now() reading t
Handle(r, bookmarks, t) ==
    CASE r.op = "add"        -> add_bookmark(r.data, bookmarks, t, t)
      [] r.op = "update"     -> update_bookmark(r.id, r.data, bookmarks)
      [] r.op = "delete"     -> delete_bookmark(r.id, bookmarks)
      [] r.op = "bulkDelete" -> bulk_delete_bookmarks(r.data, bookmarks)
      [] r.op = "import"     -> import_bookmarks(r.upload, bookmarks, t)

\* the handler reads the clock
ReadsClock(r) == r.op \in {"add", "import"}

\* the number of save_bookmarks calls made so far
Writes == Cardinality({p \in Procs : pc[p] = "done" /\ last[p].saved})

InitConc ==
    /\ file = Absent
    /\ now = 0
    /\ pc = [p \in 1..NumRequests |-> "idle"]
    /\ req = [p \in 1..NumRequests |-> [op |-> "none"]]
    /\ local = [p \in 1..NumRequests |-> <<>>]
    /\ last = [p \in 1..NumRequests |-> [op |-> "none"]]

\* the response of request p: `seen` is the number of writes made when it
\* loaded, `nth` the number of its own write (0 when it wrote nothing)
Response(p, r, resp, t, seen) ==
    [op |-> r.op, request |-> r, status |-> resp.status, body |-> resp.body,
     saved |-> resp.saved, pre |-> local[p], at |-> t, seen |-> seen,
     nth |-> IF resp.saved THEN Writes + 1 ELSE 0]

\* requests are numbered in the order they arrive: p arrives when the
\* requests before it have
Arrives(p) ==
    /\ pc[p] = "idle"
    /\ \A q \in Procs : q < p => pc[q] # "idle"

\* a request that fails before load_bookmarks
Reject(p) ==
    /\ Arrives(p)
    /\ \E r \in ConcRequests :
          /\ ReturnsBeforeLoad(r)
          /\ req' = [req EXCEPT ![p] = r]
          /\ last' = [last EXCEPT ![p] = Response(p, r, Handle(r, <<>>, now), now, Writes)]
    /\ pc' = [pc EXCEPT ![p] = "done"]
    /\ UNCHANGED <<file, now, local>>

\* a request arrives and its handler runs up to load_bookmarks
Load(p) ==
    /\ Arrives(p)
    /\ \E r \in ConcRequests :
          /\ ~ReturnsBeforeLoad(r)
          /\ req' = [req EXCEPT ![p] = r @@ [seen |-> Writes]]
    /\ local' = [local EXCEPT ![p] = load_bookmarks(file)]
    /\ pc' = [pc EXCEPT ![p] = "loaded"]
    /\ UNCHANGED <<file, now, last>>

\* request p returns resp, computed at clock reading t
SaveResponse(p, resp, t) ==
    /\ Len(resp.bookmarks) <= MaxConcBookmarks
    /\ file' = IF resp.saved THEN save_bookmarks(resp.bookmarks) ELSE file
    /\ now' = t
    /\ last' = [last EXCEPT ![p] = Response(p, req[p], resp, t, req[p].seen)]

\* a Save that loads again: the handler as one step on the file as it is
Save_Reloads(p) ==
    /\ pc[p] = "loaded"
    /\ \E t \in IF ReadsClock(req[p]) THEN Later ELSE {now} :
          SaveResponse(p, Handle(req[p], load_bookmarks(file), t), t)
    /\ pc' = [pc EXCEPT ![p] = "done"]
    /\ UNCHANGED <<req, local>>

\* the handler runs from load_bookmarks to its return, save_bookmarks included
Save(p) ==
    /\ pc[p] = "loaded"
    /\ \E t \in IF ReadsClock(req[p]) THEN Later ELSE {now} :
          SaveResponse(p, Handle(req[p], local[p], t), t)
    /\ pc' = [pc EXCEPT ![p] = "done"]
    /\ UNCHANGED <<req, local>>

NextConc ==
    \/ \E p \in Procs : Reject(p)
    \/ \E p \in Procs : Load(p)
    \/ \E p \in Procs : Save(p)

SpecConc == InitConc /\ [][NextConc]_vars

\* a run of NumStoreRequests requests on the empty store
InitStore ==
    /\ file = Absent
    /\ now = 0
    /\ pc = [p \in 1..NumStoreRequests |-> "idle"]
    /\ req = [p \in 1..NumStoreRequests |-> [op |-> "none"]]
    /\ local = [p \in 1..NumStoreRequests |-> <<>>]
    /\ last = [p \in 1..NumStoreRequests |-> [op |-> "none"]]

SpecStore == InitStore /\ [][NextConc]_vars

(***************************************************************************)
(* Properties of the requests handled one at a time.                       *)
(***************************************************************************)
\* the collection as persisted
Stored == load_bookmarks(file)

\* a is b with some of its elements left out
RECURSIVE IsSubseq(_, _)
IsSubseq(a, b) ==
    IF a = <<>> THEN TRUE
    ELSE IF b = <<>> THEN FALSE
    ELSE IF Head(a) = Head(b) THEN IsSubseq(Tail(a), Tail(b))
    ELSE IsSubseq(a, Tail(b))

\* C1: no two bookmarks of the persisted collection have the same dedup key
\* (the stored url lower-cased, its trailing '/' stripped).
C1_UniqueDedupKeys ==
    \A i, j \in 1..Len(Stored) :
        i # j => DedupKey(Stored[i].url) # DedupKey(Stored[j].url)

\* C2: no two bookmarks of the persisted collection have the same id.
C2_UniqueIds ==
    \A i, j \in 1..Len(Stored) : i # j => Stored[i].id # Stored[j].id

\* the length of the scheme prefix of u, letter case ignored; 0 without one
SchemePrefix(u) ==
    IF LiteralAt(u, 1, "https://") THEN 8
    ELSE IF LiteralAt(u, 1, "http://") THEN 7
    ELSE 0

\* u without scheme prefix, trailing slashes and letter case
Bare(u) == rstrip(lower(SubSeq(u, SchemePrefix(u) + 1, Len(u))), {"/"})

\* u and v differ only by presence or absence of the scheme prefix, by a
\* trailing slash, or by letter case
DiffersOnly(u, v) ==
    /\ Bare(u) = Bare(v)
    /\ \/ SchemePrefix(u) = 0
       \/ SchemePrefix(v) = 0
       \/ lower(SubSeq(u, 1, SchemePrefix(u))) = lower(SubSeq(v, 1, SchemePrefix(v)))

\* the urls of the add requests
AddUrls == {data.url : data \in {d \in AddInputs : "url" \in DOMAIN d}}

\* C3: an add whose url differs only by scheme prefix, trailing slash or
\* letter case from the url of an add that succeeded (and whose bookmark is
\* stored) fails with 409 and adds no record.
C3_SecondAddConflicts ==
    (last.op = "add" /\ "url" \in DOMAIN last.request) =>
        \A i \in 1..Len(last.pre), first \in AddUrls :
            (/\ last.pre[i].url = NormalizeUrl(strip(first))
             /\ DiffersOnly(first, last.request.url))
            => (last.status = 409 /\ Stored = last.pre)

\* the bookmarks parse_netscape_bookmarks finds in the file of the last import
C6_Parsed == ParseUpload(last.request.content, last.at)

\* the i-th parsed bookmark has the dedup key of a bookmark of the collection
\* or of a bookmark parsed before it
C6_Duplicate(parsed, i) ==
    \/ \E k \in 1..Len(last.pre) :
          DedupKey(last.pre[k].url) = DedupKey(parsed[i].url)
    \/ \E j \in 1..(i - 1) :
          DedupKey(parsed[j].url) = DedupKey(parsed[i].url)

C6_New(parsed) == {i \in 1..Len(parsed) : ~C6_Duplicate(parsed, i)}

\* the import of `parsed`, of which the bookmarks at `new` are not duplicates
C6_Imports(parsed, new) ==
    Len(parsed) >= 1 =>
        /\ last.status = 200
        /\ last.body.total = Len(parsed)
        /\ last.body.imported = Cardinality(new)
        /\ last.body.imported + last.body.skipped = last.body.total
        /\ Len(Stored) = Len(last.pre) + last.body.imported
        /\ SubSeq(Stored, 1, Len(last.pre)) = last.pre
        /\ \A i \in new :
              LET b == Stored[Len(last.pre) + Cardinality({j \in new : j <= i})]
              IN  /\ b.title = parsed[i].title
                  /\ b.url = parsed[i].url
                  /\ b.description = parsed[i].description
                  /\ b.created = parsed[i].created
                  /\ b.category = "Imported"
                  /\ b.tags = <<>>

\* C6: an import whose parse yields n >= 1 bookmarks skips exactly the
\* parsed bookmarks whose dedup key is that of a stored bookmark or of an
\* earlier one of the batch, appends the others in order with category
\* "Imported" and tags [], and reports imported + skipped = total = n with the
\* collection grown by imported records.
C6_ImportCounts ==
    (/\ last.op = "import"
     /\ "content" \in DOMAIN last.request
     /\ last.request.filename # "")
    => C6_Imports(C6_Parsed, C6_New(C6_Parsed))

\* two anchors whose HREF matches a stored bookmark: imported 0, skipped 2
C6_Witness ==
    /\ last.op = "import"
    /\ last.status = 200
    /\ Len(last.pre) >= 1
    /\ last.body = [success |-> TRUE, imported |-> 0, skipped |-> 2, total |-> 2]
    /\ Stored = last.pre

\* the fields update can change
UpdatableFields == {"url", "title", "description", "tags", "category"}

\* the bookmarks of the collection before the update whose id is the one named
C8_Targets == {i \in 1..Len(last.pre) : last.pre[i].id = last.request.id}

\* the bookmark updated: the first one with the id
C8_Target == CHOOSE i \in C8_Targets : \A j \in C8_Targets : i <= j

\* C8: a successful update changes, on the record with the id, only fields
\* present in the request; id and created of every record and all other
\* records stay as they were.  update(id, {}) with an existing id succeeds,
\* returns the record unchanged, leaves the collection as it was and writes it.
C8_UpdateFrame ==
    /\ (last.op = "update" /\ last.status = 200) =>
          /\ C8_Targets # {}
          /\ Len(Stored) = Len(last.pre)
          /\ last.saved
          /\ last.body = Stored[C8_Target]
          /\ \A i \in 1..Len(last.pre) :
                /\ DOMAIN Stored[i] = DOMAIN last.pre[i]
                /\ Stored[i].id = last.pre[i].id
                /\ Stored[i].created = last.pre[i].created
                /\ i # C8_Target => Stored[i] = last.pre[i]
          /\ \A f \in UpdatableFields \ DOMAIN last.request.data :
                Stored[C8_Target][f] = last.pre[C8_Target][f]
    /\ (last.op = "update" /\ DOMAIN last.request.data = {} /\ C8_Targets # {}) =>
          /\ last.status = 200
          /\ last.saved
          /\ last.body = last.pre[C8_Target]
          /\ file = save_bookmarks(last.pre)

\* an update with no field, of a bookmark whose neighbour has other values
C8_Witness ==
    /\ last.op = "update"
    /\ DOMAIN last.request.data = {}
    /\ last.status = 200
    /\ last.saved
    /\ Len(last.pre) >= 2

\* the normalized form of an add request's url: the trimmed input, with
\* "https://" before it when it starts with neither "http://" nor "https://"
C9_Expected(u) ==
    IF startswith(strip(u), "http://") \/ startswith(strip(u), "https://")
    THEN strip(u)
    ELSE "https://" \o strip(u)

C9_Records == {i \in 1..Len(Stored) : Stored[i].url = C9_Expected(last.request.url)}

\* after a successful add the collection holds exactly one record with the
\* normalized url, with the defaults of the claim
C9_Added ==
    (last.op = "add" /\ last.status = 201) =>
        /\ Cardinality(C9_Records) = 1
        /\ \A i \in C9_Records :
              /\ i = Len(Stored)
              /\ last.body = Stored[i]
              /\ Stored[i].id # ""
              /\ Stored[i].created # ""
              /\ ("category" \notin DOMAIN last.request \/ strip(last.request.category) = "")
                    => Stored[i].category = "Uncategorized"
              /\ "tags" \notin DOMAIN last.request => Stored[i].tags = <<>>
        /\ last.request = [url |-> "example.com", title |-> "Example"] =>
              /\ last.body.url = "https://example.com"
              /\ last.body.category = "Uncategorized"
              /\ last.body.tags = <<>>

\* the id and created of each bookmark of a collection, in order
IdCreated(bookmarks) ==
    [i \in 1..Len(bookmarks) |-> <<bookmarks[i].id, bookmarks[i].created>>]

\* a step removes bookmarks or appends bookmarks; those it keeps keep their
\* id and created
C9_Stable ==
    \/ IsSubseq(IdCreated(load_bookmarks(file')), IdCreated(load_bookmarks(file)))
    \/ /\ Len(load_bookmarks(file)) <= Len(load_bookmarks(file'))
       /\ SubSeq(IdCreated(load_bookmarks(file')), 1, Len(load_bookmarks(file)))
              = IdCreated(load_bookmarks(file))

\* C9: an add that passes validation and the duplicate check leaves exactly
\* one record with the normalized url, with a non-blank id and created,
\* category "Uncategorized" when none is given and tags [] when absent; the id
\* and created of a stored record never change while it is stored.
C9_AddThenList == [](C9_Added) /\ [][C9_Stable]_vars

\* the example of the claim: add({url: "example.com", title: "Example"})
C9_Witness ==
    /\ last.op = "add"
    /\ last.status = 201
    /\ last.request = [url |-> "example.com", title |-> "Example"]
    /\ Len(Stored) >= 2

\* C10: delete(id) always reports success; when no bookmark has the id the
\* collection is unchanged, otherwise every bookmark with the id is removed
\* and the others are kept, in order; deleting the id again changes nothing.
C10_Delete ==
    last.op = "delete" =>
        /\ last.status = 200
        /\ last.body = [success |-> TRUE]
        /\ last.saved
        /\ (\A i \in 1..Len(last.pre) : last.pre[i].id # last.request.id)
              => Stored = last.pre
        /\ \A i \in 1..Len(Stored) : Stored[i].id # last.request.id
        /\ IsSubseq(Stored, last.pre)
        /\ Len(Stored) =
              Cardinality({i \in 1..Len(last.pre) : last.pre[i].id # last.request.id})
        /\ delete_bookmark(last.request.id, Stored).bookmarks = Stored

\* a delete that removes two bookmarks that have the same id
C10_Witness ==
    /\ last.op = "delete"
    /\ Len(last.pre) = Len(Stored) + 2

\* the urls of a list of bookmarks, in order
Urls(bookmarks) == [i \in 1..Len(bookmarks) |-> bookmarks[i].url]

\* the bookmarks the last request appended
C11_Appended == SubSeq(Stored, Len(last.pre) + 1, Len(Stored))

\* C11: the bookmarks present before and after an operation keep their
\* relative order (delete and bulkDelete leave a subsequence, update keeps
\* every position), and add and import put the new bookmarks after all those
\* present, import in the order they were parsed.
C11_InsertionOrder ==
    /\ last.op \in {"delete", "bulkDelete"} => IsSubseq(Stored, last.pre)
    /\ last.op = "update" => IdCreated(Stored) = IdCreated(last.pre)
    /\ last.op \in {"add", "import"} =>
          /\ Len(last.pre) <= Len(Stored)
          /\ SubSeq(Stored, 1, Len(last.pre)) = last.pre
    /\ (last.op = "add" /\ last.status = 201) => C11_Appended = <<last.body>>
    /\ (last.op = "import" /\ last.status = 200) =>
          IsSubseq(Urls(C11_Appended),
                   Urls(ParseUpload(last.request.content, last.at)))

\* an import that skips one bookmark and puts a new one after the one stored
C11_Witness ==
    /\ last.op = "import"
    /\ last.status = 200
    /\ Len(last.pre) = 1
    /\ Len(Stored) = 2
    /\ Stored[1] = last.pre[1]
    /\ last.body.skipped = 1

\* the category a bookmark counts for: "Uncategorized" when absent or blank
C12_CategoryOf(bookmark) ==
    IF strip(Get(bookmark, "category", "")) = "" THEN "Uncategorized"
    ELSE bookmark.category

C13_CategoryNotBlank ==
    /\ \A i \in 1..Len(Stored) :
          /\ "category" \in DOMAIN Stored[i]
          /\ \E k \in 1..Len(Stored[i].category) :
                Char(Stored[i].category, k) \notin Whitespace
    /\ (last.op = "add" /\ last.status = 201) =>
          last.body.category =
              IF strip(Get(last.request, "category", "")) = "" THEN "Uncategorized"
              ELSE strip(last.request.category)
    /\ (/\ last.op = "update" /\ last.status = 200
        /\ "category" \in DOMAIN last.request.data
        /\ strip(last.request.data.category) = "")
       => last.body.category = "Uncategorized"
    /\ (last.op = "import" /\ last.status = 200) =>
          \A i \in (Len(last.pre) + 1)..Len(Stored) : Stored[i].category = "Imported"

\* an update with a blank category of a bookmark that was imported
C13_Witness ==
    /\ last.op = "update"
    /\ last.status = 200
    /\ "category" \in DOMAIN last.request.data
    /\ strip(last.request.data.category) = ""
    /\ \E i \in 1..Len(Stored) :
          /\ last.pre[i].category = "Imported"
          /\ Stored[i].category = "Uncategorized"

\* the ids of a bulkDelete request whose ids is a list
C14_Ids == {last.request.ids.list[k] : k \in 1..Len(last.request.ids.list)}

\* C14: bulkDelete with a list of ids removes exactly the bookmarks whose
\* id is in the list, keeps the others as they were and in order, and
\* returns the number removed; with ids that is not a list it answers 400
\* and the collection is unchanged.
C14_BulkDelete ==
    (last.op = "bulkDelete" /\ ~IsNone(last.request) /\ "ids" \in DOMAIN last.request) =>
        IF "list" \in DOMAIN last.request.ids
        THEN /\ last.status = 200
             /\ last.saved
             /\ IsSubseq(Stored, last.pre)
             /\ \A i \in 1..Len(Stored) : Stored[i].id \notin C14_Ids
             /\ Len(Stored) =
                   Cardinality({i \in 1..Len(last.pre) : last.pre[i].id \notin C14_Ids})
             /\ last.body = [success |-> TRUE, deleted |-> Len(last.pre) - Len(Stored)]
        ELSE /\ last.status = 400
             /\ ~last.saved
             /\ Stored = last.pre

\* a bulkDelete with a repeated id and an unknown one that removes a bookmark
\* and keeps another
C14_Witness ==
    /\ last.op = "bulkDelete"
    /\ last.status = 200
    /\ Len(last.request.ids.list) = 3
    /\ last.body.deleted = 1
    /\ Len(Stored) = 1

\* another record than the one updated has the dedup key of url
C15_OtherHas(url) ==
    \E j \in 1..Len(last.pre) :
        j # C8_Target /\ DedupKey(last.pre[j].url) = DedupKey(url)

\* the update of an existing record with url u, normalized as add does
C15_Url(u, url) ==
    IF strip(u) = "" THEN last.status = 400
    ELSE IF add_precheck([url |-> u]) # "" THEN last.status = 400
    ELSE IF C15_OtherHas(url) THEN last.status = 409
    ELSE /\ last.status = 200
         /\ Stored[C8_Target].url = url

\* C15: an update with an unknown id answers 404; with a url it answers 400
\* when the url is blank or malformed, 409 when another record has the dedup
\* key of the normalized url, and succeeds otherwise, also when the key is
\* that of the record's own url.
C15_UpdateUrl ==
    (last.op = "update" /\ ~IsNone(last.request.data)) =>
        IF C8_Targets = {} THEN last.status = 404
        ELSE "url" \in DOMAIN last.request.data =>
                 C15_Url(last.request.data.url, C9_Expected(last.request.data.url))

\* the response of the handler of the last request on the empty collection
C16_OnEmpty ==
    CASE last.op = "list"           -> get_bookmarks(<<>>)
      [] last.op = "listCategories" -> get_categories(<<>>)
      [] last.op = "add"            -> add_bookmark(last.request, <<>>, last.at, last.at)
      [] last.op = "update"         ->
             update_bookmark(last.request.id, last.request.data, <<>>)
      [] last.op = "delete"         -> delete_bookmark(last.request.id, <<>>)
      [] last.op = "bulkDelete"     -> bulk_delete_bookmarks(last.request, <<>>)
      [] last.op = "import"         -> import_bookmarks(last.request, <<>>, last.at)

\* the last request was answered with r, and the file written if r says so
C16_Answered(r) ==
    /\ last.status = r.status
    /\ last.body = r.body
    /\ last.saved = r.saved
    /\ file = IF r.saved THEN save_bookmarks(r.bookmarks)
              ELSE IF last.blob = "corrupt" THEN Corrupt ELSE Absent

\* C16: on a file that is absent or that json.load rejects every request is
\* answered as on the empty collection, and a mutating request that
\* succeeds overwrites the file with the collection it would write there.
C16_BlobAsEmpty ==
    (last.op # "none" /\ last.blob \in {"absent", "corrupt"}) =>
        /\ last.pre = <<>>
        /\ last.status < 500
        /\ C16_Answered(C16_OnEmpty)

\* an add on a corrupt file: the file then holds the one bookmark added
C16_Witness ==
    /\ last.op = "add"
    /\ last.blob = "corrupt"
    /\ last.status = 201
    /\ file = save_bookmarks(<<last.body>>)

\* C17: a request answered with an error does not call save_bookmarks and
\* leaves the file, and so the collection, as it was.
C17_ErrorsKeepStore ==
    (last.op # "none" /\ last.status >= 400) =>
        /\ ~last.saved
        /\ Stored = last.pre
        /\ file.kind = last.blob

\* an update that carries a title and fails on the url of another bookmark
C17_Witness ==
    /\ last.op = "update"
    /\ last.status = 409
    /\ "title" \in DOMAIN last.request.data
    /\ Len(last.pre) = 2
    /\ Stored = last.pre

\* C19: every stored url starts with "http://" or "https://", in lower case.
C19_SchemePrefix ==
    \A i \in 1..Len(Stored) :
        startswith(Stored[i].url, "https://") \/ startswith(Stored[i].url, "http://")

\* an url given with an upper-case scheme, stored behind "https://", next to
\* an imported url that came without scheme
C19_Witness ==
    /\ Len(Stored) = 2
    /\ \E i \in 1..Len(Stored) : Stored[i].url = "https://HTTP://example.com"
    /\ \E i \in 1..Len(Stored) : Stored[i].url = "https://c.io"

(***************************************************************************)
(* Properties of the codec.                                                *)
(***************************************************************************)
\* the whole seconds of a created timestamp
WholeSeconds(created) == fromisoformat(created) \div TicksPerSecond

\* C4: parsing the Netscape export yields one bookmark per exported
\* bookmark, in order, each with the title, url and description of the
\* original and created equal to the second; exporting the parsed bookmarks
\* gives the same text again.
C4_RoundTrip ==
    last.op = "parse" =>
        /\ Len(last.parsed) = Len(Stored)
        /\ \A i \in 1..Len(last.parsed) :
              i <= Len(Stored) =>
                  /\ last.parsed[i].title = Stored[i].title
                  /\ last.parsed[i].url = Stored[i].url
                  /\ last.parsed[i].description = Stored[i].description
                  /\ WholeSeconds(last.parsed[i].created) = WholeSeconds(Stored[i].created)
        /\ export_bookmarks_netscape(last.parsed, now).body = last.content

\* the five entities
Entities ==
    {<<"&amp;", "&">>, <<"&lt;", "<">>, <<"&gt;", ">">>, <<"&quot;", "\"">>,
     <<"&#x27;", "'">>}

\* the entity that starts at position i of text, if there is one
EntityAt(text, i) ==
    {e \in Entities :
        /\ i + Len(e[1]) - 1 <= Len(text)
        /\ SubSeq(text, i, i + Len(e[1]) - 1) = e[1]}

\* text holds none of < > " ' and each & of it starts an entity
WellEscaped(text) ==
    \A i \in 1..Len(text) :
        /\ Char(text, i) \notin {"<", ">", "\"", "'"}
        /\ Char(text, i) = "&" => EntityAt(text, i) # {}

RECURSIVE Unescape(_)
\* text with each entity replaced by its character, from the left
Unescape(text) ==
    IF text = "" THEN ""
    ELSE IF EntityAt(text, 1) # {}
    THEN LET e == CHOOSE x \in EntityAt(text, 1) : TRUE
         IN  e[2] \o Unescape(SubSeq(text, Len(e[1]) + 1, Len(text)))
    ELSE Char(text, 1) \o Unescape(SubSeq(text, 2, Len(text)))

\* the user-supplied texts the styled export embeds for one bookmark, in order
StyledFields(bookmark) ==
    <<bookmark.url, bookmark.title, bookmark.url>>
    \o (IF bookmark.description # "" THEN <<bookmark.description>> ELSE <<>>)
    \o bookmark.tags

\* the user-supplied texts the Netscape export embeds for one bookmark
NetscapeFields(bookmark) ==
    <<bookmark.url, bookmark.title>>
    \o (IF bookmark.description # "" THEN <<bookmark.description>> ELSE <<>>)

RECURSIVE FieldsOf(_, _)
FieldsOf(bookmarks, op) ==
    IF bookmarks = <<>> THEN <<>>
    ELSE (IF op = "export" THEN StyledFields(Head(bookmarks))
          ELSE NetscapeFields(Head(bookmarks)))
         \o FieldsOf(Tail(bookmarks), op)

\* the interpolated user fields of the page just exported, in order
C5_Embedded ==
    LET IsField(part) == part.kind = "field" IN SelectSeq(last.parts, IsField)

\* C5: both exports embed title, url, description (and the styled export
\* each tag) only escaped: an embedded field holds none of < > " ', each &
\* of it starts one of the five entities, and decoding the entities gives the
\* stored text back (nothing is escaped twice or left out).
C5_Escaped ==
    last.op \in {"export", "export_netscape"} =>
        /\ last.body = Join(last.parts)
        /\ Len(C5_Embedded) = Len(FieldsOf(Stored, last.op))
        /\ \A k \in 1..Len(C5_Embedded) :
              /\ WellEscaped(C5_Embedded[k].text)
              /\ Unescape(C5_Embedded[k].text) = FieldsOf(Stored, last.op)[k]

\* a styled export of a bookmark whose fields hold all five characters
C5_Witness ==
    /\ last.op = "export"
    /\ \E i \in 1..Len(Stored) :
          /\ Stored[i].title = "Tom & Jerry's <b>"
          /\ Stored[i].url = "https://a.io/?q=\"x\"&y=<z>"
          /\ Stored[i].tags = <<"a&b", "<script>">>

(***************************************************************************)
(* Properties of the requests handled concurrently.                        *)
(***************************************************************************)
\* C18: under concurrency too (SpecStore), every collection written to the
\* file has pairwise distinct dedup keys.
C18_ConcurrentUniqueKeys ==
    \A i, j \in 1..Len(Stored) :
        i < j => DedupKey(Stored[i].url) # DedupKey(Stored[j].url)

\* q loaded before p wrote and wrote after p: q's write takes no account of p's
Overwrites(q, p) ==
    /\ p # q
    /\ pc[p] = "done" /\ pc[q] = "done"
    /\ last[p].saved /\ last[q].saved
    /\ last[q].seen < last[p].nth
    /\ last[p].nth < last[q].nth

\* C7: when a request q loads before a request p saves and saves after it,
\* and no save follows, the persisted collection is the one q computed from
\* what it loaded: both report success and p's change is lost (of two adds
\* that both return 201 only q's bookmark is stored).
C7_LostUpdate ==
    \A p, q \in Procs :
        (Overwrites(q, p) /\ last[q].nth = Writes) =>
            /\ last[p].op = "add" => last[p].status = 201
            /\ last[q].op = "add" =>
                  /\ last[q].status = 201
                  /\ Stored = Append(last[q].pre, last[q].body)
            /\ (last[p].op = "add" /\ last[q].op = "add") =>
                  \A i \in 1..Len(Stored) : Stored[i] # last[p].body

\* two adds of distinct urls both returned 201 and one bookmark is stored
C7_Witness ==
    \E p, q \in Procs :
        /\ Overwrites(q, p)
        /\ last[p].op = "add" /\ last[q].op = "add"
        /\ last[p].status = 201 /\ last[q].status = 201
        /\ DedupKey(last[p].body.url) # DedupKey(last[q].body.url)
        /\ Stored = <<last[q].body>>

====
